---- MODULE Spec2Model ----
(***************************************************************************)
(* CScriptCache (src/script/scriptcache.h): the salted-hash key derivation *)
(* and the Get / Add / setup_bytes facade over the CuckooCache store.      *)
(*                                                                         *)
(* CSHA256 is modelled by the message it has absorbed: Write appends the   *)
(* bytes, Finalize yields the digest of the whole message, an abstract     *)
(* value determined by and determining the message (a collision-free       *)
(* hash).  The store (cuckoocache.h) is modelled by its contract: a set of *)
(* at most m_size keys behind a shared/exclusive lock.                     *)
(***************************************************************************)
EXTENDS Integers, Sequences, FiniteSets, TLC

\* Width in bytes of a uint256: the literal 32 of every Write of a uint256.
WIDTH_BYTES == 32

\* Largest number of entries a setup_bytes call of the model asks for.
MaxEntries == 2

Workers == {"w1", "w2"}
Facades == {"a", "b"}
None == "none"

\* A uint256 given by its bytes: all zero except the first and the last byte.
Uint256(first, last) ==
    [i \in 1..WIDTH_BYTES |-> IF i = 1 THEN first ELSE IF i = WIDTH_BYTES THEN last ELSE 0]

\* The values GetRandHash may return, the witness hashes and the flags callers pass.
NonceSamples == {Uint256(171, 205), Uint256(18, 52)}
HashSamples == {Uint256(0, 0), Uint256(0, 1)}
FlagSamples == {0, 1, 256, 65536}

\* The builds: sizeof(unsigned int), which is 4 on every target the program is built
\* for, and the byte order of the target.
Platforms == [uint_bytes : {4}, endian : {"little", "big"}]

VARIABLES
    platform,         \* the build the program runs as
    nonce,            \* per facade: the value GetRandHash returned in the constructor
    m_salted_hasher,  \* per facade: the message absorbed by the pre-seeded CSHA256
    m_set_scripts,    \* the keys held by the store of facade "a"
    m_size,           \* the number of entries the store was set up for
    lock,             \* the store's shared/exclusive lock
    pc,               \* per worker: where it is in its call ("done": it has returned)
    call,             \* per worker: the facade call as the caller made it, and its result
    req,              \* per worker: the request the facade handed to the store
    hasher,           \* per worker: the local CSHA256 of ComputeEntry
    found,            \* per worker: the result of the store's lookup
    live,             \* history: keys added and since then neither erased nor evicted
    hist,             \* history: the last call that took effect, if an Add or a hit
    budget,           \* history: the byte budget of the last setup_bytes that took effect
    job,              \* per worker: the (hash, flags) check it is carrying out
    verified          \* history: the checks whose verification succeeded, with their keys

vars == <<platform, nonce, m_salted_hasher, m_set_scripts, m_size, lock, pc, call, req,
          hasher, found, live, hist, budget, job, verified>>

keyVars == <<platform, nonce, m_salted_hasher>>
storeVars == <<m_set_scripts, m_size>>

----------------------------------------------------------------------------
(* CSHA256 and the object representation of unsigned int *)

Write(h, data, len) == h \o SubSeq(data, 1, len)

Finalize(h) == [sha256 |-> h]

\* The bytes at (unsigned char*)&flags: sizeof(flags) bytes in the build's byte order.
ObjectBytes(flags, p) ==
    LET le == [i \in 1..p.uint_bytes |-> (flags \div (256 ^ (i - 1))) % 256]
    IN  IF p.endian = "little" THEN le
        ELSE [i \in 1..p.uint_bytes |-> le[p.uint_bytes + 1 - i]]

\* The values an unsigned int holds on build p.
UIntRange(p) == {f \in FlagSamples : f \div (256 ^ (p.uint_bytes - 1)) < 256}

\* The nonce written once only.
CScriptCache_Once(n) == Write(<<>>, n, WIDTH_BYTES)

\* The hasher seeded with a zero uint256 in place of the value drawn.
CScriptCache_Zero(n) ==
    Write(Write(<<>>, Uint256(0, 0), WIDTH_BYTES), Uint256(0, 0), WIDTH_BYTES)

\* The constructor: the hasher after the two Writes of the nonce.
CScriptCache(n) == Write(Write(<<>>, n, WIDTH_BYTES), n, WIDTH_BYTES)

\* Keys handed to Get and Add directly: digests of messages no facade hashes.
KeySamples == {Finalize(<<1>>), Finalize(<<2>>), Finalize(<<3>>)}

NoCall == [op |-> None]

\* 2^32 / WIDTH_BYTES: the first count of uint256 entries whose bytes no uint32_t holds.
U32_UNITS == 134217728

\* A byte count (a size_t or a uint32_t), kept as its quotient and remainder by
\* WIDTH_BYTES so that budgets beyond 32 bits can be written: units * 32 + rem.
Bytes(units, rem) == [units |-> units, rem |-> rem]

LeqBytes(a, b) == a.units < b.units \/ (a.units = b.units /\ a.rem <= b.rem)

Init ==
    /\ platform \in Platforms
    /\ nonce \in [Facades -> NonceSamples]
    /\ m_salted_hasher = [c \in Facades |-> CScriptCache(nonce[c])]
    /\ m_set_scripts = {}
    /\ m_size = 0
    /\ lock = [writer |-> None, readers |-> {}]
    /\ pc = [w \in Workers |-> "idle"]
    /\ call = [w \in Workers |-> NoCall]
    /\ req = [w \in Workers |-> NoCall]
    /\ hasher = [w \in Workers |-> <<>>]
    /\ found = [w \in Workers |-> FALSE]
    /\ live = {}
    /\ hist = NoCall
    /\ budget = Bytes(0, 0)
    /\ job = [w \in Workers |-> NoCall]
    /\ verified = {}

----------------------------------------------------------------------------
(* The store: CuckooCache::cache behind CScriptCache *)

CanLock(w, exclusive) ==
    IF exclusive THEN lock.writer = None /\ lock.readers = {}
    ELSE lock.writer = None

Locked(w, exclusive) ==
    IF exclusive THEN [lock EXCEPT !.writer = w]
    ELSE [lock EXCEPT !.readers = @ \cup {w}]

Unlocked(w) == [writer |-> IF lock.writer = w THEN None ELSE lock.writer,
                readers |-> lock.readers \ {w}]

\* cache::contains(e, erase), entered: the request is taken and the lock awaited.
contains(w, e, erase) ==
    /\ req' = [req EXCEPT ![w] = [op |-> "contains", key |-> e, erase |-> erase]]
    /\ pc' = [pc EXCEPT ![w] = "contains_lock"]

\* cache::insert(e), entered.
insert(w, e) ==
    /\ req' = [req EXCEPT ![w] = [op |-> "insert", key |-> e]]
    /\ pc' = [pc EXCEPT ![w] = "insert_lock"]

\* cache::setup_bytes(n), entered.
store_setup_bytes(w, n) ==
    /\ req' = [req EXCEPT ![w] = [op |-> "setup_bytes", n |-> n]]
    /\ pc' = [pc EXCEPT ![w] = "setup_lock"]

\* A reader takes the lock shared, an erasing reader and a writer exclusive.
StoreLock(w) ==
    /\ pc[w] \in {"contains_lock", "insert_lock", "setup_lock"}
    /\ LET exclusive == IF pc[w] = "contains_lock" THEN req[w].erase ELSE TRUE
       IN  /\ CanLock(w, exclusive)
           /\ lock' = Locked(w, exclusive)
    /\ pc' = [pc EXCEPT ![w] = CASE pc[w] = "contains_lock" -> "contains_find"
                                 [] pc[w] = "insert_lock" -> "insert_write"
                                 [] pc[w] = "setup_lock" -> "setup_resize"]
    /\ UNCHANGED <<keyVars, storeVars, call, req, hasher, found, live, hist, job, verified, budget>>

\* What the last call that took effect was to key k: its Add into a sized store, a
\* Get that found it ("hit"), a Get that found and erased it, or anything else.
After(k) == IF hist # NoCall /\ hist.key = k THEN hist.op ELSE "other"

\* The last call that took effect was op on key k, and it was an Add of k to a store
\* already holding k, or the erasing hit that followed such an Add directly.
AfterAgain(k, op) == hist # NoCall /\ hist.key = k /\ hist.op = op /\ hist.dup

\* contains: the lookup.  The call takes effect here: the history is told what the
\* caller asked for (call), whatever the store was asked (req).
ContainsFind(w) ==
    /\ pc[w] = "contains_find"
    /\ LET hit == req[w].key \in m_set_scripts
       IN  /\ found' = [found EXCEPT ![w] = hit]
           /\ pc' = [pc EXCEPT ![w] = IF req[w].erase /\ hit THEN "contains_erase"
                                      ELSE "contains_unlock"]
           /\ hist' = IF hit THEN [op |-> IF call[w].erase THEN "erase_hit" ELSE "hit",
                                    key |-> call[w].key,
                                    dup |-> call[w].erase /\ AfterAgain(call[w].key, "Add")]
                       ELSE NoCall
           /\ live' = IF call[w].erase /\ hit THEN live \ {call[w].key} ELSE live
           /\ call' = [call EXCEPT ![w] = [@ EXCEPT !.after = After(call[w].key),
                                                    !.was_live = call[w].key \in live,
                                                    !.fresh = TRUE]]
    /\ UNCHANGED <<keyVars, storeVars, lock, req, hasher, job, verified, budget>>

\* contains: the found entry is removed, still under the exclusive lock.
ContainsErase(w) ==
    /\ pc[w] = "contains_erase"
    /\ m_set_scripts' = m_set_scripts \ {req[w].key}
    /\ pc' = [pc EXCEPT ![w] = "contains_unlock"]
    /\ UNCHANGED <<keyVars, m_size, lock, call, req, hasher, found, live, hist, job,
                   verified, budget>>

\* insert: the key is stored; a full store first evicts an entry of its choice.
InsertWrite(w) ==
    /\ pc[w] = "insert_write"
    /\ LET k == req[w].key
       IN  \/ /\ k \in m_set_scripts \/ m_size = 0
              /\ UNCHANGED <<m_set_scripts, live>>
           \/ /\ k \notin m_set_scripts
              /\ Cardinality(m_set_scripts) < m_size
              /\ m_set_scripts' = m_set_scripts \cup {k}
              /\ live' = live \cup {k}
           \/ /\ k \notin m_set_scripts
              /\ m_size > 0
              /\ Cardinality(m_set_scripts) >= m_size
              /\ \E victim \in m_set_scripts :
                    /\ m_set_scripts' = (m_set_scripts \ {victim}) \cup {k}
                    /\ live' = (live \ {victim}) \cup {k}
    /\ hist' = IF m_size > 0 THEN [op |-> "Add", key |-> call[w].key,
                                   dup |-> call[w].key \in m_set_scripts]
               ELSE NoCall
    /\ call' = [v \in Workers |->
                 IF v = w THEN [call[w] EXCEPT !.present = call[w].key \in m_set_scripts]
                 ELSE IF call[v].op = "Get" /\ call[v].key = call[w].key
                 THEN [call[v] EXCEPT !.fresh = FALSE] ELSE call[v]]
    /\ pc' = [pc EXCEPT ![w] = "insert_unlock"]
    /\ UNCHANGED <<keyVars, m_size, lock, req, hasher, found, job, verified, budget>>

\* The entries committed for a budget of n bytes: the whole uint256 entries that fit
\* in n, and no more than a uint32_t can report the bytes of.
Committed(n) == IF n.units < U32_UNITS THEN n.units ELSE U32_UNITS - 1

\* setup_bytes: the table is sized to the uint256 entries that fit in n bytes.
SetupResize(w) ==
    /\ pc[w] = "setup_resize"
    /\ m_size' = Committed(req[w].n)
    /\ m_set_scripts' = {}
    /\ live' = {}
    /\ hist' = NoCall
    /\ budget' = call[w].n
    /\ pc' = [pc EXCEPT ![w] = "setup_unlock"]
    /\ UNCHANGED <<keyVars, lock, call, req, hasher, found, job, verified>>

----------------------------------------------------------------------------
(* The facade: CScriptCache::Get, Add and setup_bytes *)

\* Get with the erase flag dropped: the store is never asked to erase.
Get_NoErase(w, entry, erase) == contains(w, entry, FALSE)

\* Get with the erase flag stuck: the store is always asked to erase.
Get_AlwaysErase(w, entry, erase) == contains(w, entry, TRUE)

Get(w, entry, erase) == contains(w, entry, erase)

\* Get's return value negated.
GetResult_Negated(w) == ~found[w]

\* return m_set_scripts.contains(entry, erase);
GetResult(w) == found[w]

\* Add waiting for a free slot when the table is full, instead of calling insert.
Add_AwaitRoom(w, entry) ==
    /\ req' = [req EXCEPT ![w] = [op |-> "insert", key |-> entry]]
    /\ pc' = [pc EXCEPT ![w] = IF Cardinality(m_set_scripts) < m_size THEN "insert_lock"
                               ELSE "add_wait"]

Add(w, entry) == insert(w, entry)

setup_bytes_Doubled(w, n) == store_setup_bytes(w, Bytes(2 * n.units, n.rem))

\* The store asked for no bytes at all, whatever n is.
setup_bytes_Dropped(w, n) == store_setup_bytes(w, Bytes(0, 0))

\* n narrowed to 32 bits on its way to the store.
setup_bytes_Narrowed(w, n) == store_setup_bytes(w, Bytes(n.units % U32_UNITS, n.rem))

\* return m_set_scripts.setup_bytes(n);
setup_bytes(w, n) == store_setup_bytes(w, n)

\* The store call returns, and with it the facade call: its result is the store's.
Return(w) ==
    /\ pc[w] \in {"contains_unlock", "insert_unlock", "setup_unlock"}
    /\ lock' = Unlocked(w)
    /\ call' = [call EXCEPT ![w] =
                 CASE pc[w] = "contains_unlock" -> [@ EXCEPT !.result = GetResult(w)]
                   [] pc[w] = "insert_unlock" -> @
                   [] pc[w] = "setup_unlock" -> [@ EXCEPT !.result = Bytes(m_size, 0)]]
    /\ pc' = [pc EXCEPT ![w] = "done"]
    /\ req' = [req EXCEPT ![w] = NoCall]
    /\ found' = [found EXCEPT ![w] = FALSE]
    /\ UNCHANGED <<keyVars, storeVars, hasher, live, hist, job, verified, budget>>

\* The worker is in no call: it has made none, or its last one has returned.
Idle(w) == pc[w] \in {"idle", "done"}

DoneGet(w) == pc[w] = "done" /\ call[w].op = "Get"

\* A caller's calls, with any key and any budget.
CallGet(w) ==
    /\ Idle(w)
    /\ \E k \in KeySamples, erase \in BOOLEAN :
          /\ call' = [call EXCEPT ![w] = [op |-> "Get", key |-> k, erase |-> erase,
                                          result |-> FALSE, after |-> "other",
                                          was_live |-> FALSE, fresh |-> FALSE]]
          /\ Get(w, k, erase)
    /\ UNCHANGED <<keyVars, storeVars, lock, hasher, found, live, hist, job, verified, budget>>

CallAdd(w) ==
    /\ Idle(w)
    /\ \E k \in KeySamples :
          /\ call' = [call EXCEPT ![w] = [op |-> "Add", key |-> k, present |-> FALSE]]
          /\ Add(w, k)
    /\ UNCHANGED <<keyVars, storeVars, lock, hasher, found, live, hist, job, verified, budget>>

CallSetupBytes(w) ==
    /\ Idle(w)
    /\ \E e \in 0..MaxEntries :
          /\ call' = [call EXCEPT ![w] = [op |-> "setup_bytes", n |-> Bytes(e, 0),
                                          result |-> Bytes(0, 0)]]
          /\ setup_bytes(w, Bytes(e, 0))
    /\ UNCHANGED <<keyVars, storeVars, lock, hasher, found, live, hist, job, verified, budget>>

\* The budgets a caller may pass: a size_t, below and beyond the range of uint32_t.
BudgetSamples ==
    {Bytes(0, 0), Bytes(0, 31), Bytes(1, 0), Bytes(1, 1), Bytes(MaxEntries, 0),
     Bytes(U32_UNITS - 1, 0), Bytes(U32_UNITS - 1, 31), Bytes(U32_UNITS, 0),
     Bytes(U32_UNITS + 1, 0), Bytes(2 * U32_UNITS + 1, 5)}

CallSetupBytesAny(w) ==
    /\ Idle(w)
    /\ \E n \in BudgetSamples :
          /\ call' = [call EXCEPT ![w] = [op |-> "setup_bytes", n |-> n,
                                          result |-> Bytes(0, 0)]]
          /\ setup_bytes(w, n)
    /\ UNCHANGED <<keyVars, storeVars, lock, hasher, found, live, hist, job, verified,
                   budget>>

NextSetup ==
    \E w \in Workers :
        \/ CallSetupBytesAny(w)
        \/ StoreLock(w)
        \/ SetupResize(w)
        \/ Return(w)

Next ==
    \E w \in Workers :
        \/ CallGet(w)
        \/ CallAdd(w)
        \/ CallSetupBytes(w)
        \/ StoreLock(w)
        \/ ContainsFind(w)
        \/ ContainsErase(w)
        \/ InsertWrite(w)
        \/ SetupResize(w)
        \/ Return(w)

----------------------------------------------------------------------------
(* CScriptCache::ComputeEntry, statement by statement *)

\* The local hasher default-constructed, not copied from the salted one.
CopyHasher_Fresh(w) ==
    /\ pc[w] = "ce_copy"
    /\ hasher' = [hasher EXCEPT ![w] = <<>>]
    /\ pc' = [pc EXCEPT ![w] = "ce_hash"]
    /\ UNCHANGED <<keyVars, storeVars, lock, call, req, found, live, hist, job, verified,
                   budget>>

\* CSHA256 hasher = m_salted_hasher;
CopyHasher(w) ==
    /\ pc[w] = "ce_copy"
    /\ hasher' = [hasher EXCEPT ![w] = m_salted_hasher[call[w].facade]]
    /\ pc' = [pc EXCEPT ![w] = "ce_hash"]
    /\ UNCHANGED <<keyVars, storeVars, lock, call, req, found, live, hist, job, verified, budget>>

\* The hash written into m_salted_hasher itself, as if hasher were a reference to it.
WriteHash_Shared(w) ==
    /\ pc[w] = "ce_hash"
    /\ hasher' = [hasher EXCEPT ![w] = Write(@, call[w].hash, WIDTH_BYTES)]
    /\ m_salted_hasher' = [m_salted_hasher EXCEPT ![call[w].facade] =
                             Write(@, call[w].hash, WIDTH_BYTES)]
    /\ pc' = [pc EXCEPT ![w] = "ce_flags"]
    /\ UNCHANGED <<platform, nonce, storeVars, lock, call, req, found, live, hist, job,
                   verified, budget>>

\* hasher.Write(hash.begin(), 32)
WriteHash(w) ==
    /\ pc[w] = "ce_hash"
    /\ hasher' = [hasher EXCEPT ![w] = Write(@, call[w].hash, WIDTH_BYTES)]
    /\ pc' = [pc EXCEPT ![w] = "ce_flags"]
    /\ UNCHANGED <<keyVars, storeVars, lock, call, req, found, live, hist, job, verified, budget>>

\* Only the first byte of flags written.
WriteFlags_OneByte(w) ==
    /\ pc[w] = "ce_flags"
    /\ hasher' = [hasher EXCEPT ![w] = Write(@, ObjectBytes(call[w].flags, platform), 1)]
    /\ pc' = [pc EXCEPT ![w] = "ce_final"]
    /\ UNCHANGED <<keyVars, storeVars, lock, call, req, found, live, hist, job, verified, budget>>

\* .Write((unsigned char*)&flags, sizeof(flags))
WriteFlags(w) ==
    /\ pc[w] = "ce_flags"
    /\ hasher' = [hasher EXCEPT ![w] =
                    Write(@, ObjectBytes(call[w].flags, platform), platform.uint_bytes)]
    /\ pc' = [pc EXCEPT ![w] = "ce_final"]
    /\ UNCHANGED <<keyVars, storeVars, lock, call, req, found, live, hist, job, verified, budget>>

\* .Finalize(entry.begin()); return entry;
FinalizeEntry(w) ==
    /\ pc[w] = "ce_final"
    /\ call' = [call EXCEPT ![w] = [@ EXCEPT !.result = Finalize(hasher[w])]]
    /\ hasher' = [hasher EXCEPT ![w] = <<>>]
    /\ pc' = [pc EXCEPT ![w] = "done"]
    /\ UNCHANGED <<keyVars, storeVars, lock, req, found, live, hist, job, verified, budget>>

ComputeEntry(w, c, hash, flags) ==
    /\ call' = [call EXCEPT ![w] = [op |-> "ComputeEntry", facade |-> c, hash |-> hash,
                                    flags |-> flags, result |-> Finalize(<<>>)]]
    /\ pc' = [pc EXCEPT ![w] = "ce_copy"]

\* A caller derives a key on either facade.
CallComputeEntry(w) ==
    /\ Idle(w)
    /\ \E c \in Facades, h \in HashSamples, f \in UIntRange(platform) :
          ComputeEntry(w, c, h, f)
    /\ UNCHANGED <<keyVars, storeVars, lock, req, hasher, found, live, hist, job, verified, budget>>

NextKeys ==
    \E w \in Workers :
        \/ CallComputeEntry(w)
        \/ CopyHasher(w)
        \/ WriteHash(w)
        \/ WriteFlags(w)
        \/ FinalizeEntry(w)

SpecKeys == Init /\ [][NextKeys]_vars

----------------------------------------------------------------------------
(* The validator: computeKey, contains, and on a miss verify and insert on success *)

\* The transaction the validator checks, and the flags it checks it under.
CheckHashes == {Uint256(0, 1)}
CheckFlags == {0, 1, 256}

\* The outcome of the full verification: the transaction passes with and without
\* the rule of flag 1 and fails the rule that flag 256 adds.
ScriptsValid(h, f) == f \in {0, 1}

\* The check is over: the worker is free for the next one.
Over(w) ==
    /\ job' = [job EXCEPT ![w] = NoCall]
    /\ call' = [call EXCEPT ![w] = NoCall]
    /\ pc' = [pc EXCEPT ![w] = "idle"]

\* At startup the store is sized, once, before any check runs.
Startup(w) ==
    /\ budget = Bytes(0, 0)
    /\ \A v \in Workers : pc[v] = "idle" /\ call[v] = NoCall
    /\ \E e \in 1..MaxEntries :
          /\ call' = [call EXCEPT ![w] = [op |-> "setup_bytes", n |-> Bytes(e, 0),
                                          result |-> Bytes(0, 0)]]
          /\ setup_bytes(w, Bytes(e, 0))
    /\ UNCHANGED <<keyVars, storeVars, lock, hasher, found, live, hist, job, verified, budget>>

\* A worker takes up the check of a transaction under some flags and derives its key.
StartCheck(w) ==
    /\ budget # Bytes(0, 0)
    /\ Idle(w)
    /\ job[w] = NoCall
    /\ \E h \in CheckHashes, f \in CheckFlags :
          /\ job' = [job EXCEPT ![w] = [op |-> "check", hash |-> h, flags |-> f]]
          /\ ComputeEntry(w, "a", h, f)
    /\ UNCHANGED <<keyVars, storeVars, lock, req, hasher, found, live, hist, verified, budget>>

\* It asks the cache for the key, erasing on a hit or not.
Lookup(w) ==
    /\ pc[w] = "done"
    /\ call[w].op = "ComputeEntry"
    /\ job[w] # NoCall
    /\ \E erase \in BOOLEAN :
          /\ call' = [call EXCEPT ![w] = [op |-> "Get", key |-> call[w].result,
                                          erase |-> erase, result |-> FALSE,
                                          after |-> "other", was_live |-> FALSE,
                                          fresh |-> FALSE]]
          /\ Get(w, call[w].result, erase)
    /\ UNCHANGED <<keyVars, storeVars, lock, hasher, found, live, hist, job, verified, budget>>

\* On a hit the verification is skipped.
SkipOnHit(w) ==
    /\ DoneGet(w)
    /\ job[w] # NoCall
    /\ call[w].result
    /\ Over(w)
    /\ UNCHANGED <<keyVars, storeVars, lock, req, hasher, found, live, hist, verified, budget>>

\* On a miss the scripts are verified; only a success is inserted.
VerifyOnMiss(w) ==
    /\ DoneGet(w)
    /\ job[w] # NoCall
    /\ ~call[w].result
    /\ \/ /\ ScriptsValid(job[w].hash, job[w].flags)
          /\ verified' = verified \cup {[hash |-> job[w].hash, flags |-> job[w].flags,
                                          entry |-> call[w].key]}
          /\ call' = [call EXCEPT ![w] = [op |-> "Add", key |-> call[w].key,
                                          present |-> FALSE]]
          /\ Add(w, call[w].key)
          /\ UNCHANGED job
       \/ /\ ~ScriptsValid(job[w].hash, job[w].flags)
          /\ Over(w)
          /\ UNCHANGED <<req, verified, budget>>
    /\ UNCHANGED <<keyVars, storeVars, lock, hasher, found, live, hist, budget>>

\* The insert has returned: the check is over.
Cached(w) ==
    /\ pc[w] = "done"
    /\ call[w].op = "Add"
    /\ job[w] # NoCall
    /\ Over(w)
    /\ UNCHANGED <<keyVars, storeVars, lock, req, hasher, found, live, hist, verified, budget>>

NextCaller ==
    \E w \in Workers :
        \/ Startup(w)
        \/ StartCheck(w)
        \/ CopyHasher(w)
        \/ WriteHash(w)
        \/ WriteFlags(w)
        \/ FinalizeEntry(w)
        \/ Lookup(w)
        \/ SkipOnHit(w)
        \/ VerifyOnMiss(w)
        \/ Cached(w)
        \/ StoreLock(w)
        \/ ContainsFind(w)
        \/ ContainsErase(w)
        \/ InsertWrite(w)
        \/ SetupResize(w)
        \/ Return(w)

\* The store reads neither the build nor the nonce: one of each is followed.
InitStore ==
    /\ Init
    /\ platform = [uint_bytes |-> 4, endian |-> "little"]
    /\ nonce = [c \in Facades |-> Uint256(171, 205)]

Spec == InitStore /\ [][Next]_vars

SpecCaller == InitStore /\ [][NextCaller]_vars

SpecSetup == InitStore /\ [][NextSetup]_vars

\* A step of a call in progress that needs no lock: a statement of ComputeEntry, or
\* the store's work and its return once the lock is held.
Running(w) ==
    \/ CopyHasher(w)
    \/ WriteHash(w)
    \/ WriteFlags(w)
    \/ FinalizeEntry(w)
    \/ ContainsFind(w)
    \/ ContainsErase(w)
    \/ InsertWrite(w)
    \/ SetupResize(w)
    \/ Return(w)

\* Fair scheduling: a worker inside a call keeps being run, and a worker that can take
\* the lock again and again is eventually given it.  The validator is free to stop
\* between calls.
Fairness == \A w \in Workers : WF_vars(Running(w)) /\ SF_vars(StoreLock(w))

\* Two workers calling all four operations on one facade whose table holds one entry,
\* so that readers and writers meet at the lock and an Add of a second key finds the
\* table full.
BusyKeys == {Finalize(<<1>>), Finalize(<<2>>)}

CallAny(w) ==
    /\ Idle(w)
    /\ \/ /\ ComputeEntry(w, "a", Uint256(0, 1), 1)
          /\ UNCHANGED req
       \/ \E k \in BusyKeys, erase \in BOOLEAN :
             /\ call' = [call EXCEPT ![w] = [op |-> "Get", key |-> k, erase |-> erase,
                                             result |-> FALSE, after |-> "other",
                                             was_live |-> FALSE, fresh |-> FALSE]]
             /\ Get(w, k, erase)
       \/ \E k \in BusyKeys :
             /\ call' = [call EXCEPT ![w] = [op |-> "Add", key |-> k, present |-> FALSE]]
             /\ Add(w, k)
       \/ /\ call' = [call EXCEPT ![w] = [op |-> "setup_bytes", n |-> Bytes(1, 0),
                                          result |-> Bytes(0, 0)]]
          /\ setup_bytes(w, Bytes(1, 0))
    /\ UNCHANGED <<keyVars, storeVars, lock, hasher, found, live, hist, job, verified,
                   budget>>

NextBusy ==
    \E w \in Workers :
        \/ CallAny(w)
        \/ StoreLock(w)
        \/ Running(w)

SpecFair == InitStore /\ [][NextBusy]_vars /\ Fairness

----------------------------------------------------------------------------
(* Properties of Get and Add on the store (Spec) *)

\* C1: a Get returns true only for a key that, when it was looked up, had been added
\* and had since its last Add neither been erased by a hit nor evicted; a key never
\* added is reported absent.
C1_NoFalsePositive ==
    \A w \in Workers : (DoneGet(w) /\ call[w].result) => call[w].was_live

C1_Witness ==
    \E w \in Workers :
        /\ DoneGet(w) /\ ~call[w].result /\ ~call[w].erase
        /\ m_size > 0 /\ m_set_scripts # {} /\ call[w].key \notin m_set_scripts

\* C2: on a sized store a Get(k, false) that follows Add(k) directly returns true, and
\* so does a Get(k, false) that directly follows a Get(k, false) that returned true.
C2_RoundTrip ==
    \A w \in Workers :
        (DoneGet(w) /\ ~call[w].erase /\ call[w].after \in {"Add", "hit"})
            => call[w].result

\* The second Get(k, false) has returned true, on a store that is full.
C2_Witness ==
    \E w \in Workers :
        /\ DoneGet(w) /\ ~call[w].erase /\ call[w].after = "hit" /\ call[w].result
        /\ Cardinality(m_set_scripts) = m_size
        /\ hist # NoCall /\ hist.op = "hit" /\ hist.key = call[w].key

\* C3: a Get(k, true) that follows Add(k) directly returns true, and the Get(k, false)
\* or Get(k, true) that directly follows a Get(k, true) hit returns false.
C3_EraseOnce ==
    \A w \in Workers :
        DoneGet(w) =>
            /\ (call[w].erase /\ call[w].after = "Add") => call[w].result
            /\ call[w].after = "erase_hit" => ~call[w].result

C3_Witness ==
    \E w \in Workers :
        /\ DoneGet(w) /\ ~call[w].erase /\ call[w].after = "erase_hit" /\ ~call[w].result
        /\ hist = NoCall

\* C5: the calls of concurrent workers take effect one at a time: every Get returns what
\* the sequence of calls that took effect before its lookup gives (neither a false
\* positive nor a lost Add), and whenever no writer holds the store it holds exactly
\* the keys that sequence leaves, never more than it was sized for.
C5_Linearizable ==
    /\ \A w \in Workers : DoneGet(w) => (call[w].result = call[w].was_live)
    /\ lock.writer = None => m_set_scripts = live
    /\ Cardinality(m_set_scripts) <= m_size
    /\ lock.writer # None => lock.readers = {}

\* Two readers are in the store at once, both having found their key, while the
\* store is full.
C5_Witness ==
    /\ lock.readers = Workers
    /\ \A w \in Workers : pc[w] = "contains_unlock" /\ found[w]
    /\ Cardinality(m_set_scripts) = m_size

\* C6: of two Get(k, true) calls by two workers with no Add(k) taking effect since the
\* lookup of either, at most one returns true.
C6_AtMostOneEraseHit ==
    \A w1, w2 \in Workers :
        (/\ w1 # w2 /\ DoneGet(w1) /\ DoneGet(w2)
         /\ call[w1].key = call[w2].key
         /\ call[w1].erase /\ call[w2].erase
         /\ call[w1].fresh /\ call[w2].fresh)
            => ~(call[w1].result /\ call[w2].result)

\* Both workers asked for the same key with erase; one was told true, the other false.
C6_Witness ==
    \E w1, w2 \in Workers :
        /\ w1 # w2 /\ DoneGet(w1) /\ DoneGet(w2)
        /\ call[w1].key = call[w2].key
        /\ call[w1].erase /\ call[w2].erase
        /\ call[w1].fresh /\ call[w2].fresh
        /\ call[w1].result /\ ~call[w2].result
        /\ call[w2].after = "erase_hit"

----------------------------------------------------------------------------
(* Properties of the validator's use of the cache (SpecCaller) *)

DoneEntry(w) == pc[w] = "done" /\ call[w].op = "ComputeEntry"

\* The worker holds the key it derived for its check.
HasEntry(w) == job[w] # NoCall /\ (DoneEntry(w) \/ call[w].op \in {"Get", "Add"})

Entry(w) == IF call[w].op = "ComputeEntry" THEN call[w].result ELSE call[w].key

\* C4: every key in the store is the key of a check whose verification succeeded;
\* a worker whose Get returned true is checking a (hash, flags) pair verified before;
\* and the key of a check that fails verification is never in the store.
C4_OnlyVerifiedCached ==
    /\ \A k \in m_set_scripts : \E v \in verified : v.entry = k
    /\ \A w \in Workers :
          (DoneGet(w) /\ job[w] # NoCall /\ call[w].result)
              => \E v \in verified : v.hash = job[w].hash /\ v.flags = job[w].flags
    /\ \A w \in Workers :
          (HasEntry(w) /\ ~ScriptsValid(job[w].hash, job[w].flags))
              => Entry(w) \notin m_set_scripts

\* One worker skips verification on a hit while the other has just failed to find
\* the key of a check that does not verify, with the store holding a key.
C4_Witness ==
    \E w1, w2 \in Workers :
        /\ DoneGet(w1) /\ job[w1] # NoCall /\ call[w1].result
        /\ DoneGet(w2) /\ job[w2] # NoCall /\ ~call[w2].result
        /\ ~ScriptsValid(job[w2].hash, job[w2].flags)
        /\ m_set_scripts # {}

\* C7: two workers that derived a key for the same (hash, flags) hold the same key,
\* whatever calls ran in between, and m_salted_hasher is what the constructor left.
C7_Deterministic ==
    /\ \A w1, w2 \in Workers :
          (/\ HasEntry(w1) /\ HasEntry(w2)
           /\ job[w1].hash = job[w2].hash /\ job[w1].flags = job[w2].flags)
              => Entry(w1) = Entry(w2)
    /\ m_salted_hasher = [c \in Facades |-> CScriptCache(nonce[c])]

\* A worker still holds a key derived before the other's Add took effect, and the other
\* has since derived the key of the same check again.
C7_Witness ==
    \E w1, w2 \in Workers :
        /\ w1 # w2
        /\ HasEntry(w1) /\ call[w1].op = "Get" /\ pc[w1] = "contains_lock"
        /\ DoneEntry(w2) /\ job[w2] # NoCall
        /\ job[w1].hash = job[w2].hash /\ job[w1].flags = job[w2].flags
        /\ Entry(w2) \in m_set_scripts

----------------------------------------------------------------------------
(* Properties of the key derivation on every build (SpecKeys) *)

RECURSIVE ValueOf(_, _)
\* The number whose bytes, least significant first or last, are bs.
ValueOf(bs, endian) ==
    IF bs = <<>> THEN 0
    ELSE IF endian = "little" THEN Head(bs) + 256 * ValueOf(Tail(bs), endian)
    ELSE bs[Len(bs)] + 256 * ValueOf(SubSeq(bs, 1, Len(bs) - 1), endian)

\* The message begins nonce || nonce || hash.
SaltedPrefix(msg, c, hash) ==
    /\ Len(msg) >= 3 * WIDTH_BYTES
    /\ SubSeq(msg, 1, WIDTH_BYTES) = nonce[c]
    /\ SubSeq(msg, WIDTH_BYTES + 1, 2 * WIDTH_BYTES) = nonce[c]
    /\ SubSeq(msg, 2 * WIDTH_BYTES + 1, 3 * WIDTH_BYTES) = hash

FlagBytes(msg) == SubSeq(msg, 3 * WIDTH_BYTES + 1, Len(msg))

\* C8 as claimed: on every build the key is the digest of nonce || nonce || hash ||
\* flags as exactly 4 bytes, least significant first.
C8_FixedLittleEndian ==
    \A w \in Workers :
        DoneEntry(w) =>
            LET msg == call[w].result.sha256
            IN  /\ SaltedPrefix(msg, call[w].facade, call[w].hash)
                /\ Len(FlagBytes(msg)) = 4
                /\ ValueOf(FlagBytes(msg), "little") = call[w].flags

\* C8 amended: the key is the digest of nonce || nonce || hash || flags as
\* sizeof(unsigned int) = 4 bytes in the build's byte order: least significant byte
\* first on a little-endian build, most significant byte first on a big-endian one.
C8_NativeEncoding ==
    \A w \in Workers :
        DoneEntry(w) =>
            LET msg == call[w].result.sha256
            IN  /\ SaltedPrefix(msg, call[w].facade, call[w].hash)
                /\ Len(FlagBytes(msg)) = platform.uint_bytes
                /\ ValueOf(FlagBytes(msg), platform.endian) = call[w].flags
                /\ Len(FlagBytes(msg)) = 4
                /\ platform.endian = "little"
                      => ValueOf(FlagBytes(msg), "little") = call[w].flags

\* A key derived on a big-endian build for flags whose two byte orders differ.
C8_Witness ==
    \E w \in Workers :
        /\ DoneEntry(w)
        /\ call[w].flags = 256
        /\ platform.endian = "big"
        /\ FlagBytes(call[w].result.sha256) = <<0, 0, 1, 0>>

\* C9: within one facade, the messages hashed for two different (hash, flags) pairs
\* differ, and so do the keys.
C9_DistinctKeys ==
    \A w1, w2 \in Workers :
        (/\ DoneEntry(w1) /\ DoneEntry(w2)
         /\ call[w1].facade = call[w2].facade
         /\ <<call[w1].hash, call[w1].flags>> # <<call[w2].hash, call[w2].flags>>)
            => /\ call[w1].result.sha256 # call[w2].result.sha256
               /\ call[w1].result # call[w2].result

\* Two keys of one facade for the same hash under flags that agree in their low byte.
C9_Witness ==
    \E w1, w2 \in Workers :
        /\ DoneEntry(w1) /\ DoneEntry(w2)
        /\ call[w1].facade = call[w2].facade
        /\ call[w1].hash = call[w2].hash
        /\ call[w1].flags = 0 /\ call[w2].flags = 256
        /\ call[w1].result # call[w2].result

C11_BoundedCapacity ==
    /\ [](/\ Cardinality(m_set_scripts) <= m_size
          /\ m_size <= budget.units
          /\ \A w \in Workers :
                pc[w] = "done" /\ call[w].op = "setup_bytes"
                    => LeqBytes(call[w].result, call[w].n))
    /\ [][\A k \in m_set_scripts' \ m_set_scripts :
             \E w \in Workers :
                 /\ pc[w] = "insert_write"
                 /\ call[w].op = "Add"
                 /\ call[w].key = k
                 /\ pc'[w] = "insert_unlock"]_vars

\* Two distinct keys were added to a store of capacity one: both calls returned, the
\* later key reports true and the earlier one no longer does.
C11_Witness ==
    \E w, v \in Workers :
        /\ m_size = 1
        /\ pc[w] = "done" /\ call[w].op = "Add" /\ ~call[w].present
        /\ pc[v] = "done" /\ call[v].op = "Add" /\ ~call[v].present
        /\ call[w].key # call[v].key
        /\ hist # NoCall /\ hist.op = "Add" /\ hist.key = call[w].key
        /\ m_set_scripts = {call[w].key}


DoneSetup(w) == pc[w] = "done" /\ call[w].op = "setup_bytes"

Salt(c) == nonce[c] \o nonce[c]

C14_NonceFirst ==
    /\ \A c \in Facades :
          /\ m_salted_hasher[c] = Salt(c)
          /\ Len(m_salted_hasher[c]) = 2 * WIDTH_BYTES
    /\ \A w \in Workers :
          /\ pc[w] \in {"ce_hash", "ce_flags", "ce_final"}
                => /\ Len(hasher[w]) >= 2 * WIDTH_BYTES
                   /\ SubSeq(hasher[w], 1, 2 * WIDTH_BYTES) = Salt(call[w].facade)
          /\ DoneEntry(w)
                => LET msg == call[w].result.sha256
                   IN  /\ Len(msg) > 2 * WIDTH_BYTES
                       /\ SubSeq(msg, 1, 2 * WIDTH_BYTES) = Salt(call[w].facade)
                       /\ SubSeq(msg, 2 * WIDTH_BYTES + 1, Len(msg))
                             = call[w].hash \o ObjectBytes(call[w].flags, platform)

\* A key has been derived from a nonzero hash and nonzero flags while the other worker
\* is in the middle of hashing on the same facade.
C14_Witness ==
    \E w, v \in Workers :
        /\ DoneEntry(w)
        /\ call[w].hash = Uint256(0, 1)
        /\ call[w].flags = 256
        /\ pc[v] = "ce_flags"
        /\ call[v].facade = call[w].facade


InGet(w) ==
    /\ call[w].op = "Get"
    /\ pc[w] \in {"contains_lock", "contains_find", "contains_erase", "contains_unlock"}

C17_SetNotMultiset ==
    /\ [][\A w \in Workers :
             /\ (/\ call[w].op = "Add"
                 /\ pc[w] = "insert_write" /\ pc'[w] = "insert_unlock"
                 /\ call[w].key \in m_set_scripts)
                    => m_set_scripts' = m_set_scripts
             /\ (/\ call[w].op = "Get" /\ ~call[w].erase
                 /\ pc[w] = "contains_find" /\ pc'[w] = "contains_unlock"
                 /\ AfterAgain(call[w].key, "erase_hit"))
                    => ~found'[w] /\ ~GetResult(w)']_vars
    /\ []((hist # NoCall /\ hist.op = "erase_hit" /\ hist.dup /\ lock.writer = None)
             => hist.key \notin m_set_scripts)

\* Add(k) found k already present, a Get(k, true) hit followed it directly, and a
\* Get(k, false) holds the lock next: k is gone from the store it is about to search.
C17_Witness ==
    \E w \in Workers :
        /\ call[w].op = "Get" /\ ~call[w].erase
        /\ pc[w] = "contains_find"
        /\ AfterAgain(call[w].key, "erase_hit")
        /\ call[w].key \notin m_set_scripts
        /\ m_set_scripts # {}

====
